---- MODULE Spec2Model ----
(***************************************************************************)
(* Model of the todo-list change-password route (loader and action) and of *)
(* the EditCommentInput key handling.                                      *)
(*                                                                         *)
(* Spec      : the route module.  Requests are served concurrently; a      *)
(*             handler runs atomically between two awaits and may be       *)
(*             interleaved with another handler at every await.            *)
(* SpecInput : the EditCommentInput component and its DOM events.          *)
(***************************************************************************)
EXTENDS Integers, Sequences, FiniteSets, TLC

(***************************************************************************)
(* Bounds and program constants                                            *)
(***************************************************************************)
\* longest password drawn for a request body
MaxPwLen == 9

\* longest comment text the textarea holds
MaxTextLen == 3

\* `newPassword.length < 8`
MinPasswordLength == 8

\* badRequest(...) status
BadRequestStatus == 400

Requests == {"r1", "r2"}

\* ids that have a User record, and an id whose record no longer exists
UserIds == {"u1", "u2"}
StaleId == "u3"
NoId == ""

(***************************************************************************)
(* Values: JSON body fields, passwords, hashes, cookies, responses         *)
(***************************************************************************)
Rep(n) == [i \in 1..n |-> "x"]

\* plaintexts: the empty string, one just below the minimum length, and
\* every length from the minimum up to MaxPwLen
Plaintexts == {Rep(n) : n \in {0, MinPasswordLength - 1} \cup (MinPasswordLength..MaxPwLen)}

\* a JSON body field: absent (undefined after destructuring) or a string
Missing == [kind |-> "undefined", text |-> <<>>]
Str(s) == [kind |-> "string", text |-> s]
FieldValues == {Missing} \cup {Str(s) : s \in Plaintexts}
Bodies == [currentPassword : FieldValues, newPassword : FieldValues]
NoBody == [currentPassword |-> Missing, newPassword |-> Missing]

\* JavaScript truthiness of a body field: undefined and "" are falsy
Truthy(v) == v.kind = "string" /\ Len(v.text) > 0

\* argon2.hash(plain): an encoded digest, not the plaintext
Argon2Hash(plain) == [alg |-> "argon2id", digest |-> plain]
NoHash == [alg |-> "none", digest |-> <<>>]

\* argon2.verify(hash, plain)
Argon2Verify(hash, plain) == hash.alg = "argon2id" /\ hash.digest = plain

\* the Cookie header of a request
NoCookie == [kind |-> "absent", userId |-> NoId]
GarbageCookie == [kind |-> "garbage", userId |-> NoId]
SessionCookie(id) == [kind |-> "session", userId |-> id]
Cookies == {NoCookie, GarbageCookie} \cup {SessionCookie(id) : id \in UserIds \cup {StaleId}}

\* authCookie.parse(header) || {} , then .userId
CookieParse(c) == IF c.kind = "session" THEN c.userId ELSE NoId

\* authCookie.serialize({ userId })
CookieSerialize(id) == SessionCookie(id)

NoUser == [id |-> NoId, password |-> NoHash]

NoResult == [kind |-> "pending", status |-> 0, location |-> "", detail |-> "", setCookie |-> NoCookie]
Redirect(url, cookie) == [kind |-> "redirect", status |-> 302, location |-> url, detail |-> "", setCookie |-> cookie]
BadRequest(detail) == [kind |-> "json", status |-> BadRequestStatus, location |-> "", detail |-> detail, setCookie |-> NoCookie]
RenderPage == [kind |-> "null", status |-> 200, location |-> "", detail |-> "", setCookie |-> NoCookie]

MsgRequired == "Current password and new password are required"
MsgTooShort == "New password must be at least 8 characters long"
MsgIncorrect == "Current password is incorrect"

(***************************************************************************)
(* State                                                                   *)
(***************************************************************************)
VARIABLES
    store,      \* prisma.user: user id -> stored password hash
    req,        \* the requests in flight: inputs, handler locals, position
    value,      \* EditCommentInput: the owner's text
    lastEvent,  \* EditCommentInput: the DOM event handled last
    calls       \* EditCommentInput: what handling that event invoked

vars == <<store, req, value, lastEvent, calls>>
routeVars == <<store, req>>
inputVars == <<value, lastEvent, calls>>

\* a request slot: the inputs (method, cookie, body), the handler's locals
\* (userId, user, hashedPassword), its position, and a record of what it did:
\* log = the steps run so far, updates = number of prisma.user.update calls
\* completed, updatedId / replaced = the row written last and the hash it held
Idle == [method |-> "none", cookie |-> NoCookie, body |-> NoBody, pc |-> "idle",
         userId |-> NoId, user |-> NoUser, hashedPassword |-> NoHash,
         authThrew |-> FALSE, log |-> <<>>, updates |-> 0, updatedId |-> NoId,
         replaced |-> NoHash, result |-> NoResult]

InitialPassword == Rep(MinPasswordLength)

NoEvent == [type |-> "none", key |-> "", metaKey |-> FALSE, ctrlKey |-> FALSE, text |-> <<>>]
NoCalls == [onConfirm |-> 0, onCancel |-> 0, onChange |-> 0, preventDefault |-> 0]

Init ==
    /\ store = [u \in UserIds |-> Argon2Hash(InitialPassword)]
    /\ req = [r \in Requests |-> Idle]
    /\ value = <<>>
    /\ lastEvent = NoEvent
    /\ calls = NoCalls

\* prisma.user.findUnique({ where: { id } })
FindUnique(id) == IF id \in DOMAIN store THEN [id |-> id, password |-> store[id]] ELSE NoUser

Return(r, res, steps) ==
    req' = [req EXCEPT ![r].pc = "done", ![r].result = res, ![r].log = req[r].log \o steps]

ReturnBody(r, b, res, steps) ==
    req' = [req EXCEPT ![r].body = b, ![r].pc = "done", ![r].result = res, ![r].log = req[r].log \o steps]

(***************************************************************************)
(* action(): POST                                                          *)
(***************************************************************************)
\* a POST arrives; the handler starts and awaits authCookie.parse.  The
\* body is still unread on the request stream: body holds the parsed
\* formData only once request.json() has resolved
Submit(r, c) ==
    /\ req[r].pc = "idle"
    /\ req' = [req EXCEPT ![r] = [Idle EXCEPT !.method = "POST", !.cookie = c, !.pc = "parse"]]
    /\ UNCHANGED <<store, inputVars>>

\* lines 28-32
ParseCookie(r) ==
    /\ req[r].pc = "parse"
    /\ LET userId == CookieParse(req[r].cookie) IN
        IF userId = NoId
        THEN Return(r, Redirect("/login", NoCookie), <<"parse">>)
        ELSE req' = [req EXCEPT ![r].userId = userId, ![r].pc = "find", ![r].log = @ \o <<"parse">>]
    /\ UNCHANGED <<store, inputVars>>

\* variant: the `if (!user)` guard of lines 38-40 is missing
FindUserNoCheck(r) ==
    /\ req[r].pc = "find"
    /\ req' = [req EXCEPT ![r].user = FindUnique(req[r].userId), ![r].pc = "json", ![r].log = @ \o <<"find">>]
    /\ UNCHANGED <<store, inputVars>>

\* lines 34-40
FindUser(r) ==
    /\ req[r].pc = "find"
    /\ LET user == FindUnique(req[r].userId) IN
        IF user = NoUser
        THEN Return(r, Redirect("/login", NoCookie), <<"find">>)
        ELSE req' = [req EXCEPT ![r].user = user, ![r].pc = "json", ![r].log = @ \o <<"find">>]
    /\ UNCHANGED <<store, inputVars>>

\* variant: the presence check joins its two tests with && instead of ||
ReadBodyAnd(r, b) ==
    /\ req[r].pc = "json"
    /\ LET currentPassword == b.currentPassword
           newPassword == b.newPassword
       IN  IF ~Truthy(currentPassword) /\ ~Truthy(newPassword)
           THEN ReturnBody(r, b, BadRequest(MsgRequired), <<"json", "presence">>)
           ELSE IF Len(newPassword.text) < MinPasswordLength
           THEN ReturnBody(r, b, BadRequest(MsgTooShort), <<"json", "presence", "length">>)
           ELSE req' = [req EXCEPT ![r].body = b, ![r].pc = "verify", ![r].log = @ \o <<"json", "presence", "length">>]
    /\ UNCHANGED <<store, inputVars>>

\* variant: the length check is off by one (`newPassword.length < 7`)
ReadBodyOffByOne(r, b) ==
    /\ req[r].pc = "json"
    /\ LET currentPassword == b.currentPassword
           newPassword == b.newPassword
       IN  IF ~Truthy(currentPassword) \/ ~Truthy(newPassword)
           THEN ReturnBody(r, b, BadRequest(MsgRequired), <<"json", "presence">>)
           ELSE IF Len(newPassword.text) < MinPasswordLength - 1
           THEN ReturnBody(r, b, BadRequest(MsgTooShort), <<"json", "presence", "length">>)
           ELSE req' = [req EXCEPT ![r].body = b, ![r].pc = "verify", ![r].log = @ \o <<"json", "presence", "length">>]
    /\ UNCHANGED <<store, inputVars>>

\* variant: the length check of lines 51-55 is missing
ReadBodyNoLength(r, b) ==
    /\ req[r].pc = "json"
    /\ LET currentPassword == b.currentPassword
           newPassword == b.newPassword
       IN  IF ~Truthy(currentPassword) \/ ~Truthy(newPassword)
           THEN ReturnBody(r, b, BadRequest(MsgRequired), <<"json", "presence">>)
           ELSE req' = [req EXCEPT ![r].body = b, ![r].pc = "verify", ![r].log = @ \o <<"json", "presence">>]
    /\ UNCHANGED <<store, inputVars>>

\* lines 42-57: request.json() resolves with body b, the two validations,
\* argon2.verify is started
ReadBody(r, b) ==
    /\ req[r].pc = "json"
    /\ LET currentPassword == b.currentPassword
           newPassword == b.newPassword
       IN  IF ~Truthy(currentPassword) \/ ~Truthy(newPassword)
           THEN ReturnBody(r, b, BadRequest(MsgRequired), <<"json", "presence">>)
           ELSE IF Len(newPassword.text) < MinPasswordLength
           THEN ReturnBody(r, b, BadRequest(MsgTooShort), <<"json", "presence", "length">>)
           ELSE req' = [req EXCEPT ![r].body = b, ![r].pc = "verify", ![r].log = @ \o <<"json", "presence", "length">>]
    /\ UNCHANGED <<store, inputVars>>

\* variant: the result of argon2.verify is not tested
VerifyPasswordUnchecked(r) ==
    /\ req[r].pc = "verify"
    /\ req' = [req EXCEPT ![r].pc = "hash", ![r].log = @ \o <<"verify">>]
    /\ UNCHANGED <<store, inputVars>>

\* lines 57-62: argon2.verify resolves; argon2.hash is started
VerifyPassword(r) ==
    /\ req[r].pc = "verify"
    /\ LET isPasswordValid == Argon2Verify(req[r].user.password, req[r].body.currentPassword.text) IN
        IF ~isPasswordValid
        THEN Return(r, BadRequest(MsgIncorrect), <<"verify">>)
        ELSE req' = [req EXCEPT ![r].pc = "hash", ![r].log = @ \o <<"verify">>]
    /\ UNCHANGED <<store, inputVars>>

\* variant: currentPassword is hashed instead of newPassword
HashPasswordCurrent(r) ==
    /\ req[r].pc = "hash"
    /\ req' = [req EXCEPT ![r].hashedPassword = Argon2Hash(req[r].body.currentPassword.text),
                          ![r].pc = "update", ![r].log = @ \o <<"hash">>]
    /\ UNCHANGED <<store, inputVars>>

\* lines 62-63: argon2.hash resolves; prisma.user.update is started
HashPassword(r) ==
    /\ req[r].pc = "hash"
    /\ req' = [req EXCEPT ![r].hashedPassword = Argon2Hash(req[r].body.newPassword.text),
                          ![r].pc = "update", ![r].log = @ \o <<"hash">>]
    /\ UNCHANGED <<store, inputVars>>

\* lines 63-66: the row update; authCookie.serialize is started
UpdateUser(r) ==
    /\ req[r].pc = "update"
    /\ store' = [store EXCEPT ![req[r].user.id] = req[r].hashedPassword]
    /\ req' = [req EXCEPT ![r].pc = "serialize", ![r].log = @ \o <<"update">>,
                          ![r].updates = @ + 1, ![r].updatedId = req[r].user.id,
                          ![r].replaced = store[req[r].user.id]]
    /\ UNCHANGED inputVars

\* variant: the redirect carries no Set-Cookie header
RespondNoCookie(r) ==
    /\ req[r].pc = "serialize"
    /\ Return(r, Redirect("/", NoCookie), <<"serialize">>)
    /\ UNCHANGED <<store, inputVars>>

\* lines 68-72
Respond(r) ==
    /\ req[r].pc = "serialize"
    /\ Return(r, Redirect("/", CookieSerialize(req[r].user.id)), <<"serialize">>)
    /\ UNCHANGED <<store, inputVars>>

(***************************************************************************)
(* loader(): GET                                                           *)
(***************************************************************************)
\* checkAuth(request) resolves only for a session that names an existing
\* user; it rejects otherwise, and whenever the verification itself fails
ValidSession(c) == CookieParse(c) \in DOMAIN store
CheckAuthThrows(c, err) == err \/ ~ValidSession(c)

\* a GET arrives; the loader starts and awaits checkAuth
Visit(r, c) ==
    /\ req[r].pc = "idle"
    /\ req' = [req EXCEPT ![r] = [Idle EXCEPT !.method = "GET", !.cookie = c, !.pc = "checkAuth"]]
    /\ UNCHANGED <<store, inputVars>>

\* variant: the catch block does not return, so the loader falls through
LoaderReturnFallsThrough(r, err) ==
    /\ req[r].pc = "checkAuth"
    /\ req' = [req EXCEPT ![r].pc = "done", ![r].authThrew = CheckAuthThrows(req[r].cookie, err),
                          ![r].log = @ \o <<"checkAuth">>, ![r].result = RenderPage]
    /\ UNCHANGED <<store, inputVars>>

\* lines 19-24
LoaderReturn(r, err) ==
    /\ req[r].pc = "checkAuth"
    /\ LET threw == CheckAuthThrows(req[r].cookie, err) IN
        req' = [req EXCEPT ![r].pc = "done", ![r].authThrew = threw, ![r].log = @ \o <<"checkAuth">>,
                           ![r].result = IF threw THEN Redirect("/login", NoCookie) ELSE RenderPage]
    /\ UNCHANGED <<store, inputVars>>

\* the response is delivered
Finish(r) ==
    /\ req[r].pc = "done"
    /\ req' = [req EXCEPT ![r] = Idle]
    /\ UNCHANGED <<store, inputVars>>

Next ==
    \/ \E r \in Requests, c \in Cookies : Submit(r, c)
    \/ \E r \in Requests : ParseCookie(r)
    \/ \E r \in Requests : FindUser(r)
    \/ \E r \in Requests, b \in Bodies : ReadBody(r, b)
    \/ \E r \in Requests : VerifyPassword(r)
    \/ \E r \in Requests : HashPassword(r)
    \/ \E r \in Requests : UpdateUser(r)
    \/ \E r \in Requests : Respond(r)
    \/ \E r \in Requests, c \in Cookies : Visit(r, c)
    \/ \E r \in Requests, err \in BOOLEAN : LoaderReturn(r, err)
    \/ \E r \in Requests : Finish(r)

Spec == Init /\ [][Next]_vars

(***************************************************************************)
(* Properties of the change-password route                                 *)
(***************************************************************************)
Posts == {r \in Requests : req[r].method = "POST"}
Gets == {r \in Requests : req[r].method = "GET"}
Done(r) == req[r].pc = "done"

Cur(r) == req[r].body.currentPassword
New(r) == req[r].body.newPassword

\* currentPassword is a string that verifies against the hash the action
\* read from the user's record (user.password, line 57)
CurrentMatches(r) == Cur(r).kind = "string" /\ Argon2Verify(req[r].user.password, Cur(r).text)
BothPresent(r) == Truthy(Cur(r)) /\ Truthy(New(r))
LongEnough(r) == New(r).kind = "string" /\ Len(New(r).text) >= MinPasswordLength
Ran(r, step) == \E i \in 1..Len(req[r].log) : req[r].log[i] = step
RanBefore(r, step, i) == \E j \in 1..(i - 1) : req[r].log[j] = step

\* C1: a finished action that had a session of an existing user, a
\* currentPassword verifying against that user's stored hash and a
\* newPassword of at least 8 characters made exactly one store update, on
\* that user's record, and answered with a redirect to "/" whose Set-Cookie
\* token parses back to the same user id.
C1_SuccessUpdatesOnceAndRotatesSession ==
    \A r \in Posts :
        (Done(r) /\ ValidSession(req[r].cookie) /\ CurrentMatches(r) /\ LongEnough(r))
        => /\ req[r].updates = 1
           /\ req[r].updatedId = CookieParse(req[r].cookie)
           /\ req[r].result.kind = "redirect"
           /\ req[r].result.location = "/"
           /\ req[r].result.setCookie.kind = "session"
           /\ CookieParse(req[r].result.setCookie) = CookieParse(req[r].cookie)

C1_Witness ==
    \E r \in Posts :
        /\ Done(r) /\ ValidSession(req[r].cookie) /\ CurrentMatches(r) /\ LongEnough(r)
        /\ req[r].updates = 1
        /\ req[r].result = Redirect("/", SessionCookie(req[r].userId))

\* C2 as stated: whenever an action performs its store update, the hash now
\* stored for its user verifies against newPassword and does not verify
\* against the old password (currentPassword), for every accepted pair.
C2_StoredHashRejectsOldPassword ==
    [][\A r \in Requests :
        (req[r].pc = "update" /\ req'[r].pc = "serialize")
        => /\ Argon2Verify(store'[CookieParse(req[r].cookie)], New(r).text)
           /\ ~Argon2Verify(store'[CookieParse(req[r].cookie)], Cur(r).text)]_vars

\* C2 amended: whenever an action performs its store update, the hash now
\* stored for its user verifies against newPassword, and it does not verify
\* against the old password unless newPassword equals currentPassword.
C2_StoredHashIsOfNewPassword ==
    [][\A r \in Requests :
        (req[r].pc = "update" /\ req'[r].pc = "serialize")
        => /\ Argon2Verify(store'[CookieParse(req[r].cookie)], New(r).text)
           /\ (New(r).text # Cur(r).text
               => ~Argon2Verify(store'[CookieParse(req[r].cookie)], Cur(r).text))]_vars

C2_Witness ==
    \E r \in Posts :
        /\ req[r].pc = "serialize"
        /\ New(r).text # Cur(r).text
        /\ store[req[r].userId] = Argon2Hash(New(r).text)
        /\ req[r].replaced = Argon2Hash(Cur(r).text)

\* C3 as stated: every finished authenticated action whose currentPassword
\* does not match the stored hash answered 400 "Current password is
\* incorrect" and made no store update.
C3_MismatchAlwaysIncorrect ==
    \A r \in Posts :
        (Done(r) /\ ValidSession(req[r].cookie) /\ ~CurrentMatches(r))
        => req[r].result = BadRequest(MsgIncorrect) /\ req[r].updates = 0

\* C3 amended: every finished authenticated action with both fields
\* non-empty and a newPassword of at least 8 characters whose currentPassword
\* does not match the stored hash answered 400 "Current password is
\* incorrect"; and no action with a mismatching currentPassword ever makes a
\* store update.
C3_MismatchAfterValidationIncorrect ==
    \A r \in Posts :
        (ValidSession(req[r].cookie) /\ req[r].user # NoUser /\ ~CurrentMatches(r))
        => /\ req[r].updates = 0
           /\ (Done(r) /\ BothPresent(r) /\ LongEnough(r)) => req[r].result = BadRequest(MsgIncorrect)

C3_Witness ==
    \E r \in Posts :
        /\ Done(r) /\ ValidSession(req[r].cookie) /\ BothPresent(r) /\ LongEnough(r)
        /\ ~CurrentMatches(r)
        /\ req[r].result = BadRequest(MsgIncorrect)

\* C4: every authenticated action with currentPassword or newPassword
\* missing or empty makes no store update, and once finished its answer is
\* 400 "Current password and new password are required" without Set-Cookie.
C4_MissingFieldRequired ==
    \A r \in Posts :
        (ValidSession(req[r].cookie) /\ ~BothPresent(r))
        => /\ req[r].updates = 0
           /\ ~Ran(r, "update")
           /\ Done(r) => /\ req[r].result.status = BadRequestStatus
                         /\ req[r].result.detail = MsgRequired
                         /\ req[r].result.setCookie = NoCookie

C4_Witness ==
    \E r \in Posts :
        /\ Done(r) /\ ValidSession(req[r].cookie)
        /\ Truthy(Cur(r)) /\ New(r) = Str(<<>>)
        /\ req[r].result = BadRequest(MsgRequired)

\* C5 as stated: every finished authenticated action whose newPassword is
\* shorter than 8 characters answered 400 "New password must be at least 8
\* characters long" and made no store update.
C5_ShortAlwaysTooShort ==
    \A r \in Posts :
        (Done(r) /\ ValidSession(req[r].cookie)
            /\ New(r).kind = "string" /\ Len(New(r).text) < MinPasswordLength)
        => req[r].result = BadRequest(MsgTooShort) /\ req[r].updates = 0

\* C5 amended: every authenticated action with a non-empty currentPassword
\* and a non-empty newPassword shorter than 8 characters makes no store
\* update, and once finished its answer is 400 "New password must be at
\* least 8 characters long"; an empty newPassword makes no store update.
C5_ShortAfterPresenceTooShort ==
    \A r \in Posts :
        (ValidSession(req[r].cookie) /\ New(r).kind = "string" /\ Len(New(r).text) < MinPasswordLength)
        => /\ req[r].updates = 0
           /\ (Done(r) /\ BothPresent(r)) => req[r].result = BadRequest(MsgTooShort)

C5_Witness ==
    \E r \in Posts :
        /\ Done(r) /\ ValidSession(req[r].cookie) /\ BothPresent(r)
        /\ Len(New(r).text) = MinPasswordLength - 1
        /\ req[r].result = BadRequest(MsgTooShort)

\* C6: a finished loader whose request lacked a valid session, or whose
\* session check raised an error, answered with a redirect to "/login"; it
\* answered null only when the session check succeeded; and the step in
\* which the loader returns leaves the store unchanged.
C6_LoaderRedirectsUnlessAuthenticated ==
    /\ [](\A r \in Gets : Done(r) =>
            /\ (~ValidSession(req[r].cookie) \/ req[r].authThrew)
                => req[r].result = Redirect("/login", NoCookie)
            /\ req[r].result = RenderPage
                => (ValidSession(req[r].cookie) /\ ~req[r].authThrew)
            /\ req[r].result \in {RenderPage, Redirect("/login", NoCookie)}
            /\ req[r].updates = 0)
    /\ [][\A r \in Requests :
            (req[r].pc = "checkAuth" /\ req'[r].pc # "checkAuth") => store' = store]_vars

C6_Witness ==
    \E r \in Gets :
        /\ Done(r) /\ ValidSession(req[r].cookie) /\ req[r].authThrew
        /\ req[r].result = Redirect("/login", NoCookie)

\* C7: an action whose cookie is missing, does not resolve to a user id, or
\* names a user without a record never reads or validates the body (which
\* stays unread on the request, whatever it holds), never verifies, hashes
\* or updates, and once finished its answer is the redirect to "/login".
C7_NoSessionRedirectsToLogin ==
    \A r \in Posts :
        ~ValidSession(req[r].cookie)
        => /\ \A i \in 1..Len(req[r].log) : req[r].log[i] \in {"parse", "find"}
           /\ req[r].body = NoBody
           /\ req[r].updates = 0
           /\ Done(r) => req[r].result = Redirect("/login", NoCookie)

C7_Witness ==
    \E r \in Posts :
        /\ Done(r) /\ req[r].cookie = SessionCookie(StaleId)
        /\ req[r].log = <<"parse", "find">>
        /\ req[r].result = Redirect("/login", NoCookie)

\* C9: within one action, verification runs only after the presence and the
\* length check have run and passed; hashing and the store update run only
\* after a verification that succeeded, hashing before the update; and an
\* action that answers with a structured failure has made no store update.
C9_StepsStrictlyOrdered ==
    \A r \in Posts :
        /\ \A i \in 1..Len(req[r].log) :
            /\ req[r].log[i] = "verify"
                => /\ RanBefore(r, "presence", i) /\ RanBefore(r, "length", i)
                   /\ BothPresent(r) /\ LongEnough(r)
            /\ req[r].log[i] \in {"hash", "update"}
                => RanBefore(r, "verify", i) /\ CurrentMatches(r)
            /\ req[r].log[i] = "update" => RanBefore(r, "hash", i)
        /\ req[r].updates > 0 => Ran(r, "update")
        /\ req[r].result.kind = "json" => (req[r].updates = 0 /\ ~Ran(r, "update"))

C9_Witness ==
    \E r \in Posts :
        req[r].log = <<"parse", "find", "json", "presence", "length", "verify", "hash", "update">>

\* C10: every store update is made by a request whose currentPassword
\* verifies against the hash stored at the moment of that update (the hash
\* the update replaced).
C10_UpdateReplacesVerifiedHash ==
    \A r \in Posts :
        req[r].updates > 0 => Argon2Verify(req[r].replaced, Cur(r).text)

(***************************************************************************)
(* EditCommentInput                                                        *)
(***************************************************************************)
Keys == {"Enter", "Escape", "a"}

KeyEvent(k, meta, ctrl, text) == [type |-> "keydown", key |-> k, metaKey |-> meta, ctrlKey |-> ctrl, text |-> text]
ClickEvent(button, text) == [type |-> "click", key |-> button, metaKey |-> FALSE, ctrlKey |-> FALSE, text |-> text]

\* variant: the confirm branch does not test the modifier keys
HandleKeyDownAnyEnter(e) ==
    IF e.key = "Enter"
    THEN [NoCalls EXCEPT !.preventDefault = 1, !.onConfirm = 1]
    ELSE IF e.key = "Escape"
    THEN [NoCalls EXCEPT !.onCancel = 1]
    ELSE NoCalls

\* lines 40-47: the callbacks handleKeyDown invokes for event e
HandleKeyDown(e) ==
    IF (e.metaKey \/ e.ctrlKey) /\ e.key = "Enter"
    THEN [NoCalls EXCEPT !.preventDefault = 1, !.onConfirm = 1]
    ELSE IF e.key = "Escape"
    THEN [NoCalls EXCEPT !.onCancel = 1]
    ELSE NoCalls

\* the textarea's default action for a key-down that was not prevented:
\* the text it inserts (Enter inserts a line break, a plain character itself)
Inserted(e) ==
    IF e.key = "Enter" THEN <<"\n">>
    ELSE IF e.key = "a" /\ ~e.metaKey /\ ~e.ctrlKey THEN <<"a">>
    ELSE <<>>

\* a key-down on the textarea: onKeyDown (line 55), then, unless prevented,
\* the default action, whose change event reaches onChange (line 54); the
\* owner stores the text it is handed
KeyDown(k, meta, ctrl) ==
    LET e == KeyEvent(k, meta, ctrl, value)
        handled == HandleKeyDown(e)
        edits == handled.preventDefault = 0 /\ Inserted(e) # <<>> /\ Len(value) < MaxTextLen
    IN  /\ lastEvent' = e
        /\ calls' = [handled EXCEPT !.onChange = IF edits THEN 1 ELSE 0]
        /\ value' = IF edits THEN value \o Inserted(e) ELSE value
        /\ UNCHANGED routeVars

\* lines 59-64
ClickConfirm ==
    /\ lastEvent' = ClickEvent("Confirm", value)
    /\ calls' = [NoCalls EXCEPT !.onConfirm = 1]
    /\ UNCHANGED <<value, routeVars>>

\* lines 66-71
ClickCancel ==
    /\ lastEvent' = ClickEvent("Cancel", value)
    /\ calls' = [NoCalls EXCEPT !.onCancel = 1]
    /\ UNCHANGED <<value, routeVars>>

NextInput ==
    \/ \E k \in Keys, meta \in BOOLEAN, ctrl \in BOOLEAN : KeyDown(k, meta, ctrl)
    \/ ClickConfirm
    \/ ClickCancel

SpecInput == Init /\ [][NextInput]_vars

(***************************************************************************)
(* Properties of EditCommentInput                                          *)
(***************************************************************************)
\* C8: for every key-down and every text: Escape invokes onCancel, whatever
\* the modifiers; Enter with Control or Command held invokes onConfirm
\* exactly once, prevents the default action, leaves the text as it was and
\* invokes neither onCancel nor onChange; any other key-down invokes neither
\* onConfirm nor onCancel.
C8_KeyboardContract ==
    lastEvent.type = "keydown" =>
        /\ lastEvent.key = "Escape" => calls.onCancel = 1
        /\ (lastEvent.key = "Enter" /\ (lastEvent.ctrlKey \/ lastEvent.metaKey))
            => /\ calls.onConfirm = 1
               /\ calls.preventDefault = 1
               /\ calls.onCancel = 0
               /\ calls.onChange = 0
               /\ value = lastEvent.text
        /\ (lastEvent.key # "Escape"
                /\ ~(lastEvent.key = "Enter" /\ (lastEvent.ctrlKey \/ lastEvent.metaKey)))
            => calls.onConfirm = 0 /\ calls.onCancel = 0

C8_Witness ==
    /\ lastEvent = KeyEvent("Enter", TRUE, FALSE, <<"a", "\n">>)
    /\ calls.onConfirm = 1
    /\ value = <<"a", "\n">>

====
